---------------------------- MODULE Spec2Model ----------------------------
(***************************************************************************)
(* Bit-packed e-paper framebuffers (Display, VarDisplay), their byte       *)
(* aligned partial views (PartialFrame) and the 7.5" V2 driver's partial   *)
(* update, modelled from src/src/graphics.rs and src/src/epd7in5_v2/mod.rs.*)
(*                                                                         *)
(* Buffers are functions 0..len-1 -> 0..255, indexed as the Rust slices.   *)
(* A panic (slice index out of range, arithmetic overflow in a build with  *)
(* overflow checks) ends the run with status = "panic".                    *)
(***************************************************************************)
EXTENDS Integers, Sequences, FiniteSets, TLC

VARIABLES
    cfg,        \* the framebuffer's compile-time / construction parameters
    buffer,     \* Display.buffer / VarDisplay.buffer (the caller's bytes)
    rotation,   \* Display.rotation / VarDisplay.rotation
    view,       \* the live PartialFrame borrowed from the framebuffer, or NoView
    ret,        \* the PartialUpdateParameters last returned and still borrowed
    bus,        \* the bus writes made by the last call, in order
    result,     \* the Result the last call returned: "ok", "err"; "none" if none
    status,     \* "ok", or "panic" once a call has panicked
    call,       \* the last call made; arg holds the arguments of a framebuffer
                \* call and of get_partial_frame
    nwrites,    \* number of set_pixel calls made so far
    parent0,    \* history: the framebuffer's bytes when the view was created
    epd         \* the Epd7in5 driver, its call in progress and the panel's
                \* busy line; NoEpd where no driver is modelled

vars == <<cfg, buffer, rotation, view, ret, bus, result, status, call, nwrites,
          parent0, epd>>

-----------------------------------------------------------------------------
(* Bounds of the model *)

\* set_pixel calls on a framebuffer in one run
MaxWrites == 1
\* set_pixel calls on a partial view in one run
MaxViewWrites == 1

-----------------------------------------------------------------------------
(* Machine arithmetic *)

RECURSIVE BitAnd(_, _)
BitAnd(a, b) ==
    IF a = 0 \/ b = 0 THEN 0
    ELSE (a % 2) * (b % 2) + 2 * BitAnd(a \div 2, b \div 2)

RECURSIVE BitOr(_, _)
BitOr(a, b) ==
    IF a = 0 THEN b
    ELSE IF b = 0 THEN a
    ELSE (IF a % 2 = 1 \/ b % 2 = 1 THEN 1 ELSE 0) + 2 * BitOr(a \div 2, b \div 2)

\* !m for a u8
Not8(m) == 255 - m

\* bit k (0 = least significant) of a byte
BitOf(b, k) == (b \div (2 ^ k)) % 2

-----------------------------------------------------------------------------
(* crate::color : ColorType for Color and TriColor *)

Colors(ctype) == IF ctype = "TriColor" THEN {"Black", "White", "Chromatic"}
                 ELSE {"Black", "White"}

BITS_PER_PIXEL_PER_BUFFER(ctype) == 1

BUFFER_COUNT(ctype) == IF ctype = "TriColor" THEN 2 ELSE 1

\* (mask, bits): mask keeps the bits of the other pixels of the byte, bits holds
\* the plane-0 pattern in its low byte and the plane-1 pattern in its high byte
bitmask(ctype, color, bwrbit, pos) ==
    LET bit == 128 \div (2 ^ (pos % 8))
    IN  CASE color = "Black" -> <<Not8(bit), 0>>
          [] color = "White" -> <<Not8(bit), bit>>
          [] color = "Chromatic" ->
                <<Not8(bit), IF bwrbit THEN bit * 256 ELSE bit * 256 + bit>>

-----------------------------------------------------------------------------
(* graphics.rs : shared pixel addressing *)

Rotations == {"Rotate0", "Rotate90", "Rotate180", "Rotate270"}

DefaultRotation == "Rotate0"

line_bytes(width, bits_per_pixel) == (width * bits_per_pixel + 7) \div 8

\* the match on rotation in set_pixel: final coordinates (x, y)
final_coordinates(width, height, rot, point) ==
    CASE rot = "Rotate0"   -> <<point[1], point[2]>>
      [] rot = "Rotate90"  -> <<width - 1 - point[2], point[1]>>
      [] rot = "Rotate180" -> <<width - 1 - point[1], height - 1 - point[2]>>
      [] rot = "Rotate270" -> <<point[2], height - 1 - point[1]>>

\* the range check with its upper bounds off by one
out_of_range_inclusive(x, y, width, height) ==
    (x < 0) \/ (x > width) \/ (y < 0) \/ (y > height)

\* the out of range check of set_pixel
out_of_range(x, y, width, height) ==
    (x < 0) \/ (x >= width) \/ (y < 0) \/ (y >= height)

\* fn set_pixel on the slice buf[..len]: the bytes afterwards and whether an
\* index was out of range (the write before the failing index has happened)
set_pixel(buf, len, width, height, rot, bwrbit, ctype, point, color) ==
    LET xy == final_coordinates(width, height, rot, point)
        x  == xy[1]
        y  == xy[2]
    IN  IF out_of_range(x, y, width, height)
        THEN [buffer |-> buf, panicked |-> FALSE]
        ELSE
          LET index == (x * BITS_PER_PIXEL_PER_BUFFER(ctype)) \div 8
                         + y * line_bytes(width, BITS_PER_PIXEL_PER_BUFFER(ctype))
              mb    == bitmask(ctype, color, bwrbit, x)
              mask  == mb[1]
              bits  == mb[2]
          IN  IF index >= len
              THEN [buffer |-> buf, panicked |-> TRUE]
              ELSE IF BUFFER_COUNT(ctype) = 2
              THEN
                LET b1 == [buf EXCEPT ![index] =
                              BitOr(BitAnd(buf[index], mask), bits % 256)]
                    index2 == index + len \div 2
                IN  IF index2 >= len
                    THEN [buffer |-> b1, panicked |-> TRUE]
                    ELSE [buffer |-> [b1 EXCEPT ![index2] =
                                        BitOr(BitAnd(b1[index2], mask), bits \div 256)],
                          panicked |-> FALSE]
              ELSE [buffer |-> [buf EXCEPT ![index] =
                                   BitOr(BitAnd(buf[index], mask), bits % 256)],
                    panicked |-> FALSE]

\* OriginDimensions::size for a buffer of physical size width x height
size(width, height, rot) ==
    IF rot \in {"Rotate0", "Rotate180"} THEN <<width, height>> ELSE <<height, width>>

-----------------------------------------------------------------------------
(* graphics.rs : Display and VarDisplay *)

\* VarDisplay::buffer_size
buffer_size(c) ==
    c.height * line_bytes(c.width,
                          BITS_PER_PIXEL_PER_BUFFER(c.color) * BUFFER_COUNT(c.color))

\* the length of the slice buffer() returns: the whole array of a Display,
\* the first buffer_size() bytes of a VarDisplay's backing buffer
buffer_length(c) == IF c.kind = "Display" THEN c.bytecount ELSE buffer_size(c)

Zeroes(n) == [i \in 0 .. (n - 1) |-> 0]

\* caller-supplied backing bytes of a VarDisplay
PatternA(n) == [i \in 0 .. (n - 1) |-> (165 + 151 * i) % 256]
PatternB(n) == [i \in 0 .. (n - 1) |-> 255 - ((165 + 151 * i) % 256)]

NoView == [live |-> FALSE]
NoRet  == [live |-> FALSE]
NoCall == [op |-> "new", arg |-> <<>>]
NoEpd  == [live |-> FALSE]

\* The framebuffers of the framebuffer specification.  Display: the tri-colour
\* 4x4 display of the unit tests, default (zeroed) buffer.  VarDisplay: caller
\* bytes, one of them longer than buffer_size().
FbConfigs ==
    {[kind |-> "Display", color |-> "TriColor", width |-> 4, height |-> 4,
      bwrbit |-> b, bytecount |-> (4 * 4 * 2) \div 8, init |-> "zero"] : b \in BOOLEAN}
    \cup
    {[kind |-> "VarDisplay", color |-> "Color", width |-> 10, height |-> 2,
      bwrbit |-> FALSE, bytecount |-> 5, init |-> f] : f \in {"A", "B"}}
    \cup
    {[kind |-> "VarDisplay", color |-> "TriColor", width |-> 8, height |-> 2,
      bwrbit |-> b, bytecount |-> 4, init |-> "A"] : b \in BOOLEAN}
    \cup
    {[kind |-> "VarDisplay", color |-> "TriColor", width |-> 4, height |-> 3,
      bwrbit |-> FALSE, bytecount |-> 3, init |-> "B"]}

InitialBuffer(c) ==
    CASE c.init = "zero" -> Zeroes(c.bytecount)
      [] c.init = "A"    -> PatternA(c.bytecount)
      [] c.init = "B"    -> PatternB(c.bytecount)

\* points offered to set_pixel on a buffer whose rotated size is sz: every
\* point of the size, and points just outside each edge and corner
PointsFor(sz) ==
    ((0 .. (sz[1] - 1)) \X (0 .. (sz[2] - 1)))
    \cup {<<-1, 0>>, <<0, -1>>, <<-1, -1>>, <<sz[1], 0>>, <<0, sz[2]>>,
          <<sz[1] - 1, sz[2]>>, <<sz[1], sz[2] - 1>>, <<sz[1], sz[2]>>}

InitFb ==
    /\ cfg \in FbConfigs
    /\ buffer = InitialBuffer(cfg)
    /\ rotation = DefaultRotation
    /\ view = NoView
    /\ ret = NoRet
    /\ bus = <<>>
    /\ result = "none"
    /\ status = "ok"
    /\ call = NoCall
    /\ nwrites = 0
    /\ parent0 = <<>>
    /\ epd = NoEpd

\* Display::set_rotation / VarDisplay::set_rotation
set_rotation(r) ==
    /\ status = "ok"
    /\ ~view.live
    /\ rotation' = r
    /\ call' = [op |-> "set_rotation", arg |-> <<r>>]
    /\ UNCHANGED <<cfg, buffer, view, ret, bus, result, status, nwrites, parent0, epd>>

\* Display::set_pixel / VarDisplay::set_pixel
Display_set_pixel(point, color) ==
    /\ status = "ok"
    /\ ~view.live
    /\ nwrites < MaxWrites
    /\ LET r == set_pixel(buffer, buffer_length(cfg), cfg.width, cfg.height,
                          rotation, cfg.bwrbit, cfg.color, point, color)
       IN  /\ buffer' = r.buffer
           /\ status' = IF r.panicked THEN "panic" ELSE "ok"
    /\ nwrites' = nwrites + 1
    /\ call' = [op |-> "set_pixel", arg |-> <<point, color>>]
    /\ UNCHANGED <<cfg, rotation, view, ret, bus, result, parent0, epd>>

NextFb ==
    \/ \E r \in Rotations : set_rotation(r)
    \/ \E p \in PointsFor(size(cfg.width, cfg.height, rotation)) :
          \E c \in Colors(cfg.color) : Display_set_pixel(p, c)

SpecFb == InitFb /\ [][NextFb]_vars

\* VarDisplay::new with a check that also turns away a buffer of exactly the
\* computed size
VarDisplay_new_rejects_exact_fit(c) ==
    IF buffer_size(c) >= c.bytecount THEN "BufferTooSmall" ELSE "ok"

\* VarDisplay::new: Err(BufferTooSmall), or Ok(myself)
VarDisplay_new_result(c) ==
    IF buffer_size(c) > c.bytecount THEN "BufferTooSmall" ELSE "ok"

\* VarDisplay::buffer: &self.buffer[..self.buffer_size()]
VarDisplay_buffer(c, buf) == [i \in 0 .. (buffer_size(c) - 1) |-> buf[i]]

\* The arguments of VarDisplay::new: monochrome and tri-colour sizes, each
\* with caller buffers shorter than, exactly of and longer than the size the
\* constructor computes.
NewConfigs ==
    {[kind |-> "VarDisplay", color |-> "Color", width |-> 10, height |-> 2,
      bwrbit |-> FALSE, bytecount |-> n, init |-> f] :
          n \in {0, 3, 4, 6}, f \in {"A", "B"}}
    \cup
    {[kind |-> "VarDisplay", color |-> "TriColor", width |-> 8, height |-> 2,
      bwrbit |-> b, bytecount |-> n, init |-> "A"] :
          n \in {3, 4, 5}, b \in BOOLEAN}
    \cup
    {[kind |-> "VarDisplay", color |-> "TriColor", width |-> 4, height |-> 3,
      bwrbit |-> FALSE, bytecount |-> n, init |-> "B"] : n \in {2, 3, 4}}

\* the caller holds its bytes and has not yet called VarDisplay::new
InitNew ==
    /\ cfg \in NewConfigs
    /\ buffer = InitialBuffer(cfg)
    /\ rotation = DefaultRotation
    /\ view = NoView
    /\ ret = NoRet
    /\ bus = <<>>
    /\ result = "none"
    /\ status = "ok"
    /\ call = [op |-> "none", arg |-> <<>>]
    /\ nwrites = 0
    /\ parent0 = <<>>
    /\ epd = NoEpd

\* VarDisplay::new(width, height, buffer, bwrbit)
VarDisplay_new ==
    /\ status = "ok"
    /\ call.op = "none"
    /\ result' = VarDisplay_new_result(cfg)
    /\ rotation' = DefaultRotation
    /\ call' = [op |-> "new", arg |-> <<cfg.width, cfg.height, cfg.bwrbit>>]
    /\ UNCHANGED <<cfg, buffer, view, ret, bus, status, nwrites, parent0, epd>>

\* construction, then the calls of the framebuffer on the VarDisplay returned
NextNew ==
    \/ VarDisplay_new
    \/ /\ call.op # "none"
       /\ result = "ok"
       /\ NextFb

SpecNew == InitNew /\ [][NextNew]_vars

-----------------------------------------------------------------------------
(* graphics.rs : PartialFrame *)

\* the alignment with the end of the region taken one past its last column
aligned_region_end_exclusive(x, width, overflow_checks) ==
    LET aligned_x     == x - (x % 8)
        x_end         == x + width
        aligned_x_end == x_end - (x_end % 8) + 7
        aligned_width == aligned_x_end - aligned_x + 1
    IN  [panicked |-> FALSE,
         aligned_x |-> aligned_x,
         aligned_width |-> aligned_width]

\* PartialFrame::new, the alignment arithmetic on u32.  x & !0b111 is
\* x - x mod 8 and e | 0b111 is e - e mod 8 + 7.  A subtraction below zero
\* panics in a build with overflow checks and wraps modulo 2^32 otherwise; a
\* wrapped intermediate is kept as its negative representative, the stored
\* results are the residues in 0 .. 2^32 - 1.
aligned_region(x, width, overflow_checks) ==
    LET aligned_x     == x - (x % 8)
        x_end         == x + width - 1
        aligned_x_end == x_end - (x_end % 8) + 7
        aligned_width == aligned_x_end - aligned_x + 1
        overflow      == x_end < 0 \/ aligned_x_end < aligned_x
    IN  [panicked |-> overflow /\ overflow_checks,
         aligned_x |-> aligned_x,
         aligned_width |-> aligned_width]

\* the length of the vec! PartialFrame::new allocates
partial_buffer_size(c, aligned_width, height) ==
    height * line_bytes(aligned_width,
                        BITS_PER_PIXEL_PER_BUFFER(c.color) * BUFFER_COUNT(c.color))

\* full_display_size as get_partial_frame passes it: BYTECOUNT, buffer_size()
full_display_size(c) == buffer_length(c)

BufLen(b) == Cardinality(DOMAIN b)

\* PartialFrame::set_pixel: the translation of the point, then fn set_pixel
\* on the view's own buffer with its aligned width
translated(v, point) ==
    LET diff == v.original_x - v.aligned_x
    IN  CASE v.rotation = "Rotate0"   -> <<point[1] + diff, point[2]>>
          [] v.rotation = "Rotate90"  -> <<point[1], point[2] + diff>>
          [] v.rotation = "Rotate180" -> <<point[1] - diff, point[2]>>
          [] v.rotation = "Rotate270" -> <<point[1], point[2] - diff>>

\* copy the leftmost offset_pixels bits from src to dst
copy_left_padding_bits(dst, src, offset_pixels) ==
    IF offset_pixels = 0 THEN dst
    ELSE LET padding_mask == (255 * (2 ^ (8 - offset_pixels))) % 256
         IN  BitOr(BitAnd(dst, Not8(padding_mask)), BitAnd(src, padding_mask))

\* the right padding copy with a mask of one bit only
copy_right_padding_bits_one_bit(dst, src, offset_pixels) ==
    IF offset_pixels = 0 THEN dst
    ELSE LET padding_mask == 2 ^ (offset_pixels - 1)
         IN  BitOr(BitAnd(dst, Not8(padding_mask)), BitAnd(src, padding_mask))

\* copy the rightmost offset_pixels bits from src to dst
copy_right_padding_bits(dst, src, offset_pixels) ==
    IF offset_pixels = 0 THEN dst
    ELSE LET padding_mask == (2 ^ offset_pixels) - 1
         IN  BitOr(BitAnd(dst, Not8(padding_mask)), BitAnd(src, padding_mask))

\* the row copy that leaves out the last byte of the row
copy_from_slice_short(dst, dst_start, src, src_start, n) ==
    [i \in DOMAIN dst |->
        IF i >= dst_start /\ i < dst_start + n - 1
        THEN src[src_start + (i - dst_start)]
        ELSE dst[i]]

\* dst[dst_start .. dst_start + n] .copy_from_slice( src[src_start .. src_start + n] )
copy_from_slice(dst, dst_start, src, src_start, n) ==
    [i \in DOMAIN dst |->
        IF i >= dst_start /\ i < dst_start + n
        THEN src[src_start + (i - dst_start)]
        ELSE dst[i]]

\* one iteration of the row loop of copy_and_sync_buffer.  s holds the two
\* buffers; k the slice bounds and the per-call constants.
sync_row(s, k, row_idx) ==
    LET partial_row_start       == row_idx * k.partial_row_bytes
        full_display_row_start  == (k.y + row_idx) * k.full_display_row_bytes
        full_display_byte_start == full_display_row_start + k.partial_x_byte_offset
    IN  IF partial_row_start >= k.partial_len \/ full_display_byte_start >= k.full_len
        THEN [s EXCEPT !.panicked = TRUE]
        ELSE
          LET p1 == [s.part EXCEPT ![k.partial_start + partial_row_start] =
                        copy_left_padding_bits(
                            s.part[k.partial_start + partial_row_start],
                            s.full[k.full_start + full_display_byte_start],
                            k.left_padding_bits)]
              partial_last_byte_idx      == partial_row_start + k.partial_row_bytes - 1
              full_display_last_byte_idx == full_display_byte_start + k.partial_row_bytes - 1
          IN  IF partial_last_byte_idx >= k.partial_len
                    \/ full_display_last_byte_idx >= k.full_len
              THEN [full |-> s.full, part |-> p1, panicked |-> TRUE]
              ELSE
                LET p2 == [p1 EXCEPT ![k.partial_start + partial_last_byte_idx] =
                              copy_right_padding_bits(
                                  p1[k.partial_start + partial_last_byte_idx],
                                  s.full[k.full_start + full_display_last_byte_idx],
                                  k.right_padding_bits)]
                IN  [full |-> copy_from_slice(s.full,
                                              k.full_start + full_display_byte_start,
                                              p2,
                                              k.partial_start + partial_row_start,
                                              k.partial_row_bytes),
                     part |-> p2,
                     panicked |-> FALSE]

RECURSIVE sync_rows(_, _, _)
sync_rows(s, k, row_idx) ==
    IF s.panicked \/ row_idx >= k.height THEN s
    ELSE sync_rows(sync_row(s, k, row_idx), k, row_idx + 1)

\* PartialFrame::copy_and_sync_buffer on full[fs .. fe] and v.buffer[ps .. pe]
copy_and_sync_buffer(s, v, c, fs, fe, ps, pe) ==
    IF s.panicked \/ fe > BufLen(s.full) \/ fs > fe \/ pe > BufLen(s.part) \/ ps > pe
    THEN [s EXCEPT !.panicked = TRUE]
    ELSE
      LET left == v.original_x - v.aligned_x
          k == [full_start |-> fs, full_len |-> fe - fs,
                partial_start |-> ps, partial_len |-> pe - ps,
                partial_row_bytes |-> (v.aligned_width + 7) \div 8,
                full_display_row_bytes |-> (c.width + 7) \div 8,
                partial_x_byte_offset |-> v.aligned_x \div 8,
                left_padding_bits |-> left,
                right_padding_bits |-> v.aligned_width - left - v.original_width,
                y |-> v.y, height |-> v.height]
      IN  sync_rows(s, k, 0)

\* PartialFrame<Color>::get_update_parameters and
\* PartialFrame<TriColor>::get_update_parameters, up to the returned struct
get_update_parameters(full, v, c) ==
    LET s0 == [full |-> full, part |-> v.buffer, panicked |-> FALSE]
    IN  IF BUFFER_COUNT(c.color) = 2
        THEN LET half_size == BufLen(v.buffer) \div 2
                 full_display_half_size == full_display_size(c) \div 2
                 s1 == copy_and_sync_buffer(s0, v, c, 0, full_display_half_size,
                                            0, half_size)
             IN  copy_and_sync_buffer(s1, v, c, full_display_half_size,
                                      full_display_size(c), half_size, BufLen(v.buffer))
        ELSE copy_and_sync_buffer(s0, v, c, 0, full_display_size(c),
                                  0, BufLen(v.buffer))

\* The framebuffers partial views are taken from: caller-supplied bytes of a
\* VarDisplay (monochrome and tri-colour, widths 16 and 12) and a Display wider
\* than 256 pixels.  overflow_checks is the build's setting: arithmetic
\* overflow panics with it and wraps without it.
ViewConfigs ==
    {[kind |-> "VarDisplay", color |-> "Color", width |-> 16, height |-> 2,
      bwrbit |-> FALSE, bytecount |-> 4, init |-> "A", overflow_checks |-> TRUE]}
    \cup
    {[kind |-> "VarDisplay", color |-> "Color", width |-> 16, height |-> 2,
      bwrbit |-> FALSE, bytecount |-> 4, init |-> "B", overflow_checks |-> oc] :
        oc \in BOOLEAN}
    \cup
    {[kind |-> "VarDisplay", color |-> "TriColor", width |-> 16, height |-> 2,
      bwrbit |-> TRUE, bytecount |-> 8, init |-> "A", overflow_checks |-> FALSE]}
    \cup
    {[kind |-> "Display", color |-> "Color", width |-> 272, height |-> 2,
      bwrbit |-> FALSE, bytecount |-> (272 * 2) \div 8, init |-> "zero",
      overflow_checks |-> TRUE]}
    \cup
    {[kind |-> "VarDisplay", color |-> "TriColor", width |-> 12, height |-> 2,
      bwrbit |-> FALSE, bytecount |-> 6, init |-> "A", overflow_checks |-> TRUE]}
    \cup
    {[kind |-> "VarDisplay", color |-> "Color", width |-> 12, height |-> 2,
      bwrbit |-> FALSE, bytecount |-> 4, init |-> "B", overflow_checks |-> FALSE]}

\* The region requests <<x, y, width, height>> made on each of them: with
\* padding on both sides, on one side, on none; in one byte and across two;
\* on the first row, below it, on both; reaching past the framebuffer's right
\* edge; and empty (width 0), in both builds.
Regions(c) ==
    CASE c.width = 16 /\ c.color = "Color" /\ c.init = "A" ->
            {<<3, 1, 10, 1>>, <<8, 0, 8, 1>>, <<8, 1, 5, 1>>, <<1, 0, 6, 2>>,
             <<8, 1, 9, 1>>}
      [] c.width = 16 /\ c.color = "Color" /\ c.init = "B" ->
            {<<2, 0, 0, 1>>, <<0, 0, 0, 1>>, <<8, 1, 0, 1>>}
      [] c.width = 16 /\ c.color = "TriColor" ->
            {<<1, 0, 6, 2>>, <<9, 1, 7, 1>>}
      [] c.width = 272 ->
            {<<259, 1, 10, 1>>}
      [] c.width = 12 /\ c.color = "TriColor" ->
            {<<1, 0, 4, 1>>, <<9, 1, 3, 1>>}
      [] c.width = 12 /\ c.color = "Color" ->
            {<<9, 1, 3, 1>>}

\* points offered to set_pixel on a view: every point of the view's rows that
\* the translation can bring into the aligned buffer (the logical points and
\* those that land in padding columns), the points just past both ends, and
\* points above and below the rows
ViewPoints(v) ==
    LET diff  == v.original_x - v.aligned_x
        lo    == 0 - diff - 1
        hi    == v.aligned_width + diff
        pts   == ((lo .. hi) \X (0 .. (v.height - 1)))
                 \cup {<<0, 0 - 1>>, <<0, v.height>>, <<lo, 0 - 1>>, <<hi, v.height>>}
    IN  IF v.rotation \in {"Rotate0", "Rotate180"}
        THEN pts
        ELSE {<<p[2], p[1]>> : p \in pts}

Init ==
    /\ cfg \in ViewConfigs
    /\ buffer = InitialBuffer(cfg)
    /\ rotation = DefaultRotation
    /\ view = NoView
    /\ ret = NoRet
    /\ bus = <<>>
    /\ result = "none"
    /\ status = "ok"
    /\ call = NoCall
    /\ nwrites = 0
    /\ parent0 = <<>>
    /\ epd = NoEpd

\* Display::get_partial_frame / VarDisplay::get_partial_frame -> PartialFrame::new
get_partial_frame(x, y, width, height) ==
    /\ status = "ok"
    /\ ~view.live
    /\ LET a == aligned_region(x, width, cfg.overflow_checks)
       IN  IF a.panicked
           THEN /\ status' = "panic"
                /\ UNCHANGED <<view, parent0>>
           ELSE /\ status' = "ok"
                /\ view' = [live |-> TRUE,
                            original_x |-> x,
                            aligned_x |-> a.aligned_x,
                            y |-> y,
                            original_width |-> width,
                            aligned_width |-> a.aligned_width,
                            height |-> height,
                            buffer |-> Zeroes(partial_buffer_size(cfg, a.aligned_width,
                                                                  height)),
                            rotation |-> DefaultRotation]
                /\ parent0' = buffer
    /\ bus' = <<>>
    /\ result' = "none"
    /\ call' = [op |-> "get_partial_frame", arg |-> <<x, y, width, height>>]
    /\ UNCHANGED <<cfg, buffer, rotation, ret, nwrites, epd>>

\* PartialFrame::set_rotation
PartialFrame_set_rotation(r) ==
    /\ status = "ok"
    /\ view.live
    /\ view' = [view EXCEPT !.rotation = r]
    /\ ret' = NoRet
    /\ bus' = <<>>
    /\ result' = "none"
    /\ call' = [op |-> "view_set_rotation", arg |-> <<r>>]
    /\ UNCHANGED <<cfg, buffer, rotation, status, nwrites, parent0, epd>>

\* PartialFrame::set_pixel
PartialFrame_set_pixel(point, color) ==
    /\ status = "ok"
    /\ view.live
    /\ nwrites < MaxViewWrites
    /\ LET r == set_pixel(view.buffer, BufLen(view.buffer), view.aligned_width,
                          view.height, view.rotation, cfg.bwrbit, cfg.color,
                          translated(view, point), color)
       IN  /\ view' = [view EXCEPT !.buffer = r.buffer]
           /\ status' = IF r.panicked THEN "panic" ELSE "ok"
    /\ ret' = NoRet
    /\ nwrites' = nwrites + 1
    /\ bus' = <<>>
    /\ result' = "none"
    /\ call' = [op |-> "view_set_pixel", arg |-> <<>>]
    /\ UNCHANGED <<cfg, buffer, rotation, parent0, epd>>

\* PartialFrame::get_update_parameters
PartialFrame_get_update_parameters ==
    /\ status = "ok"
    /\ view.live
    /\ LET s == get_update_parameters(buffer, view, cfg)
       IN  /\ buffer' = s.full
           /\ view' = [view EXCEPT !.buffer = s.part]
           /\ status' = IF s.panicked THEN "panic" ELSE "ok"
           /\ ret' = IF s.panicked THEN NoRet
                     ELSE [live |-> TRUE, x |-> view.aligned_x, y |-> view.y,
                           width |-> view.aligned_width, height |-> view.height,
                           buffer |-> s.part]
    /\ bus' = <<>>
    /\ result' = "none"
    /\ call' = [op |-> "get_update_parameters", arg |-> <<>>]
    /\ UNCHANGED <<cfg, rotation, nwrites, parent0, epd>>

-----------------------------------------------------------------------------
(* lib.rs, interface.rs, epd7in5_v2/mod.rs : the driver's partial update *)

\* crate::buffer_len: the packed size of a width x height monochrome window
buffer_len(width, height) == ((width + 7) \div 8) * height

\* DisplayInterface::cmd: one write of the command byte
cmd(command) == << [dc |-> "command", bytes |-> <<command>>] >>

\* DisplayInterface::cmd_with_data: the command byte, then one write of the data
cmd_with_data(command, data) ==
    cmd(command) \o << [dc |-> "data", bytes |-> data] >>

\* the bytes of a buffer in index order
BytesOf(b) == [i \in 1 .. BufLen(b) |-> b[i - 1]]

\* Epd7in5::update_frame
update_frame(buf) == cmd_with_data("DataStartTransmission2", BytesOf(buf))

\* the window bytes with the upper and the lower byte of each coordinate
\* changing places
partial_window_low_byte_first(x, y, width, height) ==
    LET x_aligned     == x - (x % 8)
        x_end         == x_aligned + width - 1
        x_end_aligned == x_end - (x_end % 8) + 7
        y_end         == y + height - 1
    IN  << x_aligned % 256, (x_aligned \div 256) % 256,
           x_end_aligned % 256, (x_end_aligned \div 256) % 256,
           y % 256, (y \div 256) % 256,
           y_end % 256, (y_end \div 256) % 256,
           1 >>

\* the window bytes with the end column taken one past the last column
partial_window_end_exclusive(x, y, width, height) ==
    LET x_aligned     == x - (x % 8)
        x_end         == x_aligned + width
        x_end_aligned == x_end - (x_end % 8) + 7
        y_end         == y + height - 1
    IN  << (x_aligned \div 256) % 256, x_aligned % 256,
           (x_end_aligned \div 256) % 256, x_end_aligned % 256,
           (y \div 256) % 256, y % 256,
           (y_end \div 256) % 256, y_end % 256,
           1 >>

\* the PartialWindow parameter bytes of update_partial_frame; `as u8` keeps
\* the low byte
partial_window(x, y, width, height) ==
    LET x_aligned     == x - (x % 8)
        x_end         == x_aligned + width - 1
        x_end_aligned == x_end - (x_end % 8) + 7
        y_end         == y + height - 1
    IN  << (x_aligned \div 256) % 256, x_aligned % 256,
           (x_end_aligned \div 256) % 256, x_end_aligned % 256,
           (y \div 256) % 256, y % 256,
           (y_end \div 256) % 256, y_end % 256,
           1 >>

\* update_partial_frame that refreshes the panel before it leaves partial mode
update_partial_frame_refreshes(buf, x, y, width, height, overflow_checks) ==
    LET expected_size == buffer_len(width, height)
        actual_size   == BufLen(buf)
        overflow      == (x - (x % 8)) + width - 1 < 0 \/ y + height - 1 < 0
    IN  IF actual_size # expected_size \/ (overflow /\ overflow_checks)
        THEN [panicked |-> TRUE, writes |-> <<>>]
        ELSE [panicked |-> FALSE,
              writes |-> cmd("PartialIn")
                         \o cmd_with_data("PartialWindow",
                                          partial_window(x, y, width, height))
                         \o update_frame(buf)
                         \o cmd("DisplayRefresh")
                         \o cmd("PartialOut")]

\* update_partial_frame with a length check that lets a longer buffer through
update_partial_frame_accepts_longer(buf, x, y, width, height, overflow_checks) ==
    LET expected_size == buffer_len(width, height)
        actual_size   == BufLen(buf)
        overflow      == (x - (x % 8)) + width - 1 < 0 \/ y + height - 1 < 0
    IN  IF actual_size < expected_size \/ (overflow /\ overflow_checks)
        THEN [panicked |-> TRUE, writes |-> <<>>]
        ELSE [panicked |-> FALSE,
              writes |-> cmd("PartialIn")
                         \o cmd_with_data("PartialWindow",
                                          partial_window(x, y, width, height))
                         \o update_frame(buf)
                         \o cmd("PartialOut")]

\* Epd7in5::update_partial_frame: whether it panics (the length check, or an
\* overflowing subtraction in a build with overflow checks) and the bus writes
\* it makes when every write succeeds
update_partial_frame(buf, x, y, width, height, overflow_checks) ==
    LET expected_size == buffer_len(width, height)
        actual_size   == BufLen(buf)
        overflow      == (x - (x % 8)) + width - 1 < 0 \/ y + height - 1 < 0
    IN  IF actual_size # expected_size \/ (overflow /\ overflow_checks)
        THEN [panicked |-> TRUE, writes |-> <<>>]
        ELSE [panicked |-> FALSE,
              writes |-> cmd("PartialIn")
                         \o cmd_with_data("PartialWindow",
                                          partial_window(x, y, width, height))
                         \o update_frame(buf)
                         \o cmd("PartialOut")]

\* the caller hands the parameters it holds to Epd7in5::update_partial_frame;
\* failed = 0: every bus write succeeds, failed = k: the k-th write returns
\* an error, which `?` returns at once
Epd7in5_update_partial_frame(failed) ==
    /\ status = "ok"
    /\ ret.live
    /\ LET u == update_partial_frame(ret.buffer, ret.x, ret.y, ret.width,
                                      ret.height, cfg.overflow_checks)
       IN  IF u.panicked
           THEN /\ status' = "panic"
                /\ bus' = <<>>
                /\ result' = "none"
           ELSE /\ status' = "ok"
                /\ bus' = IF failed = 0 THEN u.writes
                          ELSE SubSeq(u.writes, 1, failed - 1)
                /\ result' = IF failed = 0 THEN "ok" ELSE "err"
    /\ call' = [op |-> "update_partial_frame", arg |-> <<>>]
    /\ UNCHANGED <<cfg, buffer, rotation, view, ret, nwrites, parent0, epd>>

Next ==
    \/ \E r \in Regions(cfg) : get_partial_frame(r[1], r[2], r[3], r[4])
    \/ \E r \in Rotations : PartialFrame_set_rotation(r)
    \/ /\ view.live
       /\ \E p \in ViewPoints(view) : \E c \in Colors(cfg.color) :
             PartialFrame_set_pixel(p, c)
    \/ PartialFrame_get_update_parameters
    \/ \E failed \in 0 .. 6 : Epd7in5_update_partial_frame(failed)

Spec == Init /\ [][Next]_vars

-----------------------------------------------------------------------------
(* epd7in5_v2/mod.rs : the Epd7in5 driver, one call at a time.  A call is    *)
(* the sequence of steps its body makes on the interface; epd.todo holds the *)
(* steps still to make, bus the steps made so far and the busy levels read.  *)
(* A failed bus write returns Err from the `?` at that write.                *)

\* busy levels one wait can read before the log of the call stops growing
MaxBusyPolls == 1

\* WIDTH, HEIGHT of the panel
WIDTH == 800
HEIGHT == 480

DEFAULT_BACKGROUND_COLOR == "Black"

\* traits::RefreshLut and its Default
RefreshLuts == {"Full", "Quick", "PartialRefresh"}
RefreshLut_default == "Full"

\* DisplayInterface::reset(delay, initial_delay, duration): the reset pulse
reset(initial_delay, duration) ==
    << [dc |-> "reset", bytes |-> <<initial_delay, duration>>] >>

\* delay.delay_ms(ms)
delay_ms(ms) == << [dc |-> "delay_ms", bytes |-> <<ms>>] >>

\* DisplayInterface::data_x_times(val, repetitions)
data_x_times(val, repetitions) ==
    << [dc |-> "data_x_times", bytes |-> <<val, repetitions>>] >>

\* Epd7in5::wait_until_idle: wait_until_idle_with_cmd(.., IS_BUSY_LOW,
\* Command::GetStatus), a loop of status command and busy-line read that ends
\* at the first read that finds the line idle
wait_until_idle == << [dc |-> "wait", bytes |-> <<"GetStatus">>] >>

\* the busy line was read and found at this level
is_busy(level) == << [dc |-> "busy_pin", bytes |-> <<level>>] >>

\* init that sends its three configuration commands before it powers on
init_configures_first ==
    reset(10000, 2000)
    \o cmd_with_data("BoosterSoftStart", <<23, 23, 40, 23>>)
    \o cmd_with_data("PanelSetting", <<31>>)
    \o cmd_with_data("VcomAndDataIntervalSetting", <<41, 7>>)
    \o cmd("PowerOn")
    \o delay_ms(100)
    \o wait_until_idle

\* Epd7in5::init
init ==
    reset(10000, 2000)
    \o cmd_with_data("BoosterSoftStart", <<23, 23, 40, 23>>)
    \o cmd("PowerOn")
    \o delay_ms(100)
    \o wait_until_idle
    \o cmd_with_data("PanelSetting", <<31>>)
    \o cmd_with_data("VcomAndDataIntervalSetting", <<41, 7>>)

\* sleep that does not wait for the panel to power off
sleep_no_wait ==
    cmd("PowerOff")
    \o cmd_with_data("DeepSleep", <<165>>)

\* Epd7in5::sleep
sleep ==
    cmd("PowerOff")
    \o wait_until_idle
    \o cmd_with_data("DeepSleep", <<165>>)

\* display_frame without the wait for the busy line
display_frame_no_wait == cmd("DisplayRefresh")

\* Epd7in5::display_frame
display_frame == cmd("DisplayRefresh") \o wait_until_idle

\* Epd7in5::update_and_display_frame
update_and_display_frame(buf) ==
    update_frame(buf) \o cmd("DisplayRefresh") \o wait_until_idle

\* Epd7in5::clear_frame
clear_frame ==
    cmd("DataStartTransmission2")
    \o data_x_times(255, (WIDTH \div 8) * HEIGHT)
    \o cmd("DisplayRefresh")
    \o wait_until_idle

\* set_lut that does not restore the booster timing when it leaves Quick
set_lut_keeps_quick_booster(refresh, refresh_rate) ==
    IF refresh_rate = refresh
    THEN [writes |-> <<>>, refresh |-> refresh]
    ELSE [writes |->
              (CASE refresh_rate \in {"Full", "None"} ->
                          cmd_with_data("CascadeSetting", <<0>>)
                    [] refresh_rate = "Quick" ->
                          cmd_with_data("BoosterSoftStart", <<39, 39, 24, 23>>)
                          \o cmd_with_data("CascadeSetting", <<2>>)
                          \o cmd_with_data("ForceTemperature", <<90>>)
                    [] refresh_rate = "PartialRefresh" ->
                          cmd_with_data("CascadeSetting", <<2>>)
                          \o cmd_with_data("ForceTemperature", <<110>>)),
          refresh |-> IF refresh_rate = "None" THEN RefreshLut_default
                      ELSE refresh_rate]

\* set_lut that compares the request with the default mode, not the recorded
set_lut_compares_default(refresh, refresh_rate) ==
    IF refresh_rate = RefreshLut_default
    THEN [writes |-> <<>>, refresh |-> refresh]
    ELSE [writes |->
              (IF refresh = "Quick"
               THEN cmd_with_data("BoosterSoftStart", <<23, 23, 40, 23>>)
               ELSE <<>>)
              \o (CASE refresh_rate \in {"Full", "None"} ->
                          cmd_with_data("CascadeSetting", <<0>>)
                    [] refresh_rate = "Quick" ->
                          cmd_with_data("BoosterSoftStart", <<39, 39, 24, 23>>)
                          \o cmd_with_data("CascadeSetting", <<2>>)
                          \o cmd_with_data("ForceTemperature", <<90>>)
                    [] refresh_rate = "PartialRefresh" ->
                          cmd_with_data("CascadeSetting", <<2>>)
                          \o cmd_with_data("ForceTemperature", <<110>>)),
          refresh |-> IF refresh_rate = "None" THEN RefreshLut_default
                      ELSE refresh_rate]

\* Epd7in5::set_lut with self.refresh = refresh and the argument refresh_rate
\* ("None", or the mode m of Some(m)): the writes it makes when every write
\* succeeds and the mode it records after them
set_lut(refresh, refresh_rate) ==
    IF refresh_rate = refresh
    THEN [writes |-> <<>>, refresh |-> refresh]
    ELSE [writes |->
              (IF refresh = "Quick"
               THEN cmd_with_data("BoosterSoftStart", <<23, 23, 40, 23>>)
               ELSE <<>>)
              \o (CASE refresh_rate \in {"Full", "None"} ->
                          cmd_with_data("CascadeSetting", <<0>>)
                    [] refresh_rate = "Quick" ->
                          cmd_with_data("BoosterSoftStart", <<39, 39, 24, 23>>)
                          \o cmd_with_data("CascadeSetting", <<2>>)
                          \o cmd_with_data("ForceTemperature", <<90>>)
                    [] refresh_rate = "PartialRefresh" ->
                          cmd_with_data("CascadeSetting", <<2>>)
                          \o cmd_with_data("ForceTemperature", <<110>>)),
          refresh |-> IF refresh_rate = "None" THEN RefreshLut_default
                      ELSE refresh_rate]

\* the builds of the driver
EpdConfigs == {[kind |-> "Epd7in5", overflow_checks |-> oc] : oc \in BOOLEAN}

\* buffers handed to update_frame and update_and_display_frame
FrameBuffers == {PatternA(2), PatternB(3)}

\* (buffer, x, y, width, height) handed to update_partial_frame: windows with
\* a buffer of the packed size (aligned, unaligned, beyond column and row 255,
\* ending at 65535, of no width, of no height) and windows with a shorter or
\* a longer buffer
PartialArgs ==
    { <<PatternA(2), 8, 1, 8, 2>>,
      <<PatternB(2), 256, 300, 16, 1>>,
      <<PatternB(1), 65528, 65534, 8, 1>>,
      <<PatternA(2), 3, 0, 10, 1>>,
      <<Zeroes(0), 0, 0, 0, 1>>,
      <<Zeroes(0), 8, 0, 8, 0>>,
      <<Zeroes(0), 16, 2, 0, 0>>,
      <<PatternA(1), 8, 1, 16, 1>>,
      <<PatternB(3), 0, 0, 8, 2>>,
      <<Zeroes(0), 0, 0, 8, 1>> }

\* The panel's side of the waveform selection: the command it received last,
\* the parameter of the last cascade setting and of the last forced
\* temperature.  A reset pulse puts the registers back to their defaults.
PanelAtReset == [cmd |-> "none", cascade |-> 0, temperature |-> 0]

\* the panel after it has received event e
Receive(panel, e) ==
    CASE e.dc = "reset"   -> PanelAtReset
      [] e.dc = "command" -> [panel EXCEPT !.cmd = e.bytes[1]]
      [] e.dc = "data" /\ panel.cmd = "CascadeSetting" ->
            [panel EXCEPT !.cascade = e.bytes[1]]
      [] e.dc = "data" /\ panel.cmd = "ForceTemperature" ->
            [panel EXCEPT !.temperature = e.bytes[1]]
      [] OTHER -> panel

\* the panel after the events of one step (none or one)
ReceiveAll(panel, events) ==
    IF events = <<>> THEN panel ELSE Receive(panel, events[1])

\* the waveform mode the panel is configured for: normal temperature
\* compensated operation, or the waveform its forced temperature selects
PanelMode(panel) ==
    CASE panel.cascade = 0 -> "Full"
      [] panel.cascade = 2 /\ panel.temperature = 90 -> "Quick"
      [] panel.cascade = 2 /\ panel.temperature = 110 -> "PartialRefresh"
      [] OTHER -> "undefined"

\* the calls of a history of set_lut, sleep and wake_up on a new driver
LutCalls == {"new", "set_lut", "sleep", "wake_up"}

NewEpd ==
    [live |-> TRUE,
     made |-> FALSE,                 \* an Epd7in5 has been returned by new
     color |-> DEFAULT_BACKGROUND_COLOR,
     refresh |-> RefreshLut_default,
     busy |-> TRUE,                  \* the level of the panel's busy line
     pc |-> "idle",                  \* "running" while a call is in progress
     todo |-> <<>>,                  \* the steps the call has still to make
     probed |-> FALSE,               \* in a wait: the status command is sent
     polls |-> 0,                    \* busy levels logged by the call
     entry |-> RefreshLut_default,   \* history: self.refresh when called
     after |-> RefreshLut_default,   \* self.refresh once the call returns Ok
     panel |-> PanelAtReset,         \* the panel's waveform registers
     lut_only |-> TRUE]              \* history: since new, every call was a
                                     \* set_lut, sleep or wake_up returning Ok

InitEpd ==
    /\ cfg \in EpdConfigs
    /\ buffer = <<>>
    /\ rotation = DefaultRotation
    /\ view = NoView
    /\ ret = NoRet
    /\ bus = <<>>
    /\ result = "none"
    /\ status = "ok"
    /\ call = [op |-> "none", arg |-> <<>>]
    /\ nwrites = 0
    /\ parent0 = <<>>
    /\ epd = NewEpd

\* a call of op(arg) on the driver starts: its body has program to run and on
\* Ok leaves refresh_after and color_after in the driver
Begin(op, arg, program, refresh_after, color_after) ==
    /\ status = "ok"
    /\ epd.live
    /\ epd.pc = "idle"
    /\ call' = [op |-> op, arg |-> arg]
    /\ bus' = <<>>
    /\ IF program = <<>>
       THEN /\ result' = "ok"
            /\ epd' = [epd EXCEPT !.entry = epd.refresh,
                                  !.refresh = refresh_after,
                                  !.after = refresh_after,
                                  !.color = color_after,
                                  !.polls = 0,
                                  !.lut_only = @ /\ op \in LutCalls]
       ELSE /\ result' = "none"
            /\ epd' = [epd EXCEPT !.entry = epd.refresh,
                                  !.after = refresh_after,
                                  !.color = color_after,
                                  !.pc = "running",
                                  !.todo = program,
                                  !.probed = FALSE,
                                  !.polls = 0,
                                  !.lut_only = IF op = "new" THEN TRUE
                                               ELSE @ /\ op \in LutCalls]
    /\ UNCHANGED <<cfg, buffer, rotation, view, ret, status, nwrites, parent0>>

\* Epd7in5::new: the driver with the default colour and mode, then init
Epd7in5_new ==
    /\ epd.live
    /\ ~epd.made
    /\ Begin("new", <<>>, init, RefreshLut_default, DEFAULT_BACKGROUND_COLOR)

Epd7in5_wake_up ==
    /\ epd.live
    /\ epd.made
    /\ Begin("wake_up", <<>>, init, epd.refresh, epd.color)

Epd7in5_sleep ==
    /\ epd.live
    /\ epd.made
    /\ Begin("sleep", <<>>, sleep, epd.refresh, epd.color)

Epd7in5_update_frame(buf) ==
    /\ epd.live
    /\ epd.made
    /\ Begin("update_frame", <<buf>>, update_frame(buf), epd.refresh, epd.color)

\* Epd7in5::update_partial_frame called with any buffer and window
Epd7in5_update_partial_frame_with(buf, x, y, width, height) ==
    /\ epd.live
    /\ epd.made
    /\ LET u == update_partial_frame(buf, x, y, width, height, cfg.overflow_checks)
       IN  IF u.panicked
           THEN /\ status = "ok"
                /\ epd.pc = "idle"
                /\ status' = "panic"
                /\ bus' = <<>>
                /\ result' = "none"
                /\ call' = [op |-> "update_partial_frame",
                            arg |-> <<buf, x, y, width, height>>]
                /\ UNCHANGED <<cfg, buffer, rotation, view, ret, nwrites,
                               parent0, epd>>
           ELSE Begin("update_partial_frame", <<buf, x, y, width, height>>,
                      u.writes, epd.refresh, epd.color)

Epd7in5_display_frame ==
    /\ epd.live
    /\ epd.made
    /\ Begin("display_frame", <<>>, display_frame, epd.refresh, epd.color)

Epd7in5_update_and_display_frame(buf) ==
    /\ epd.live
    /\ epd.made
    /\ Begin("update_and_display_frame", <<buf>>, update_and_display_frame(buf),
             epd.refresh, epd.color)

Epd7in5_clear_frame ==
    /\ epd.live
    /\ epd.made
    /\ Begin("clear_frame", <<>>, clear_frame, epd.refresh, epd.color)

Epd7in5_set_background_color(color) ==
    /\ epd.live
    /\ epd.made
    /\ Begin("set_background_color", <<color>>, <<>>, epd.refresh, color)

Epd7in5_set_lut(refresh_rate) ==
    /\ epd.live
    /\ epd.made
    /\ LET s == set_lut(epd.refresh, refresh_rate)
       IN  Begin("set_lut", <<refresh_rate>>, s.writes, s.refresh, epd.color)

\* a return that leaves the mode the call was to record even in an Err
Return_records_mode(res, events) ==
    /\ bus' = bus \o events
    /\ result' = res
    /\ epd' = [epd EXCEPT !.pc = "idle",
                          !.todo = <<>>,
                          !.probed = FALSE,
                          !.made = IF call.op = "new" THEN res = "ok" ELSE @,
                          !.refresh = epd.after,
                          !.panel = ReceiveAll(@, events),
                          !.lut_only = @ /\ res = "ok"]

\* the call in progress returns res after logging events
Return(res, events) ==
    /\ bus' = bus \o events
    /\ result' = res
    /\ epd' = [epd EXCEPT !.pc = "idle",
                          !.todo = <<>>,
                          !.probed = FALSE,
                          !.made = IF call.op = "new" THEN res = "ok" ELSE @,
                          !.refresh = IF res = "ok" THEN epd.after ELSE @,
                          !.panel = ReceiveAll(@, events),
                          !.lut_only = @ /\ res = "ok"]

\* the call in progress has made the step at the head of epd.todo
StepDone(events) ==
    IF Len(epd.todo) = 1
    THEN Return("ok", events)
    ELSE /\ bus' = bus \o events
         /\ result' = result
         /\ epd' = [epd EXCEPT !.todo = Tail(epd.todo),
                               !.probed = FALSE,
                               !.panel = ReceiveAll(@, events)]

Running == epd.live /\ status = "ok" /\ epd.pc = "running"

\* DisplayInterface::cmd / data / data_x_times: one write on the bus, which
\* succeeds or returns the bus error
Interface_write(ok) ==
    /\ Running
    /\ epd.todo[1].dc \in {"command", "data", "data_x_times"}
    /\ IF ok THEN StepDone(<<epd.todo[1]>>) ELSE Return("err", <<>>)
    /\ UNCHANGED <<cfg, buffer, rotation, view, ret, status, call, nwrites, parent0>>

\* DisplayInterface::reset and delay.delay_ms: pin writes and delays, no Result
Interface_reset_delay ==
    /\ Running
    /\ epd.todo[1].dc \in {"reset", "delay_ms"}
    /\ StepDone(<<epd.todo[1]>>)
    /\ UNCHANGED <<cfg, buffer, rotation, view, ret, status, call, nwrites, parent0>>

\* wait_until_idle_with_cmd: the status command is written before the busy
\* line is read
Interface_status_command(ok) ==
    /\ Running
    /\ epd.todo[1].dc = "wait"
    /\ ~epd.probed
    /\ IF ok
       THEN /\ bus' = bus \o cmd(epd.todo[1].bytes[1])
            /\ result' = result
            /\ epd' = [epd EXCEPT !.probed = TRUE,
                                  !.panel = Receive(@, cmd(epd.todo[1].bytes[1])[1])]
       ELSE Return("err", <<>>)
    /\ UNCHANGED <<cfg, buffer, rotation, view, ret, status, call, nwrites, parent0>>

\* wait_until_idle_with_cmd: the busy line is read; busy: the loop goes round,
\* idle: the wait is over
Interface_is_busy ==
    /\ Running
    /\ epd.todo[1].dc = "wait"
    /\ epd.probed
    /\ IF epd.busy
       THEN /\ epd.polls < MaxBusyPolls
            /\ bus' = bus \o is_busy("busy")
            /\ result' = result
            /\ epd' = [epd EXCEPT !.probed = FALSE, !.polls = @ + 1]
       ELSE StepDone(is_busy("idle"))
    /\ UNCHANGED <<cfg, buffer, rotation, view, ret, status, call, nwrites, parent0>>

\* the panel drives its busy line
Panel_busy(level) ==
    /\ epd.live
    /\ status = "ok"
    /\ epd.busy # level
    /\ epd' = [epd EXCEPT !.busy = level]
    /\ UNCHANGED <<cfg, buffer, rotation, view, ret, bus, result, status, call,
                   nwrites, parent0>>

\* one step of the call in progress
DriverStep ==
    \/ \E ok \in BOOLEAN : Interface_write(ok)
    \/ Interface_reset_delay
    \/ \E ok \in BOOLEAN : Interface_status_command(ok)
    \/ Interface_is_busy

NextEpd ==
    \/ Epd7in5_new
    \/ Epd7in5_wake_up
    \/ Epd7in5_sleep
    \/ \E b \in FrameBuffers : Epd7in5_update_frame(b)
    \/ \E a \in PartialArgs :
          Epd7in5_update_partial_frame_with(a[1], a[2], a[3], a[4], a[5])
    \/ Epd7in5_display_frame
    \/ \E b \in FrameBuffers : Epd7in5_update_and_display_frame(b)
    \/ Epd7in5_clear_frame
    \/ \E c \in Colors("Color") : Epd7in5_set_background_color(c)
    \/ \E m \in RefreshLuts \cup {"None"} : Epd7in5_set_lut(m)
    \/ DriverStep
    \/ \E level \in BOOLEAN : Panel_busy(level)

SpecEpd == InitEpd /\ [][NextEpd]_vars

\* the calling thread runs a call in progress on: a step that can be made is
\* made
SpecEpdLive == SpecEpd /\ WF_vars(DriverStep)

-----------------------------------------------------------------------------
(* Reading a framebuffer pixel by pixel, as the documented layout has it:  *)
(* rows of ceil(W/8) bytes, bit 7 the leftmost pixel of a byte, plane 1 in *)
(* the second half of the buffer.                                           *)

Planes(c) == 0 .. (BUFFER_COUNT(c.color) - 1)

PixelsOf(c) == (0 .. (c.width - 1)) \X (0 .. (c.height - 1))

PlaneByteIndex(c, len, k, q) ==
    k * (len \div 2) + q[2] * ((c.width + 7) \div 8) + q[1] \div 8

\* the bit of plane k at physical pixel q, or -1 when it is not in the buffer
PlaneBit(buf, len, c, k, q) ==
    LET i == PlaneByteIndex(c, len, k, q)
    IN  IF i < len THEN BitOf(buf[i], 7 - (q[1] % 8)) ELSE -1

PixelBits(buf, len, c, q) == [k \in Planes(c) |-> PlaneBit(buf, len, c, k, q)]

\* the plane bits of a colour: White sets the plane-0 bit only, Black none,
\* Chromatic the plane-1 bit and the plane-0 bit when polarity is false
ColourBits(c, color) ==
    [k \in Planes(c) |->
        CASE color = "White"     -> IF k = 0 THEN 1 ELSE 0
          [] color = "Black"     -> 0
          [] color = "Chromatic" -> IF k = 1 THEN 1 ELSE IF c.bwrbit THEN 0 ELSE 1]

\* T_r(p) for a W x H buffer
Transformed(W, H, r, p) ==
    CASE r = "Rotate0"   -> <<p[1], p[2]>>
      [] r = "Rotate90"  -> <<W - 1 - p[2], p[1]>>
      [] r = "Rotate180" -> <<W - 1 - p[1], H - 1 - p[2]>>
      [] r = "Rotate270" -> <<p[2], H - 1 - p[1]>>

InRotatedSize(W, H, r, p) ==
    LET sz == IF r \in {"Rotate0", "Rotate180"} THEN <<W, H>> ELSE <<H, W>>
    IN  p[1] >= 0 /\ p[1] < sz[1] /\ p[2] >= 0 /\ p[2] < sz[2]

InPhysical(W, H, q) == q[1] >= 0 /\ q[1] < W /\ q[2] >= 0 /\ q[2] < H

\* this step is a set_pixel call on the framebuffer
FbWrite == call'.op = "set_pixel"
FbPoint == call'.arg[1]
FbColour == call'.arg[2]

-----------------------------------------------------------------------------
(* Claims about the framebuffer, checked under SpecFb *)

\* C1: under every rotation r, set_pixel(p, c) at a point p inside the rotated
\* size returns normally, leaves colour c at physical pixel T_r(p) and leaves
\* every other pixel of the buffer as it was.
C1_Step ==
    (FbWrite /\ InRotatedSize(cfg.width, cfg.height, rotation, FbPoint)) =>
        LET q   == Transformed(cfg.width, cfg.height, rotation, FbPoint)
            len == buffer_length(cfg)
        IN  /\ status' = "ok"
            /\ PixelBits(buffer', len, cfg, q) = ColourBits(cfg, FbColour)
            /\ \A o \in PixelsOf(cfg) \ {q} :
                  PixelBits(buffer', len, cfg, o) = PixelBits(buffer, len, cfg, o)
C1_SetPixelStoresAtTransformedPixel == [][C1_Step]_vars

\* C2: set_pixel at a point whose rotation-mapped coordinate lies outside
\* [0, width) x [0, height) returns normally and changes neither a byte of
\* the buffer nor the rotation.
C2_Step ==
    (FbWrite /\ ~InPhysical(cfg.width, cfg.height,
                            Transformed(cfg.width, cfg.height, rotation, FbPoint))) =>
        /\ status' = "ok"
        /\ buffer' = buffer
        /\ rotation' = rotation
C2_OutOfBoundsWriteIsDropped == [][C2_Step]_vars

\* C2 witness: a write at a negative coordinate has been made on a buffer
\* that holds set bits, and the run goes on.
C2_Witness ==
    /\ call.op = "set_pixel"
    /\ call.arg[1][1] < 0
    /\ call.arg[2] = "Black"
    /\ status = "ok"
    /\ rotation = "Rotate270"
    /\ \E i \in DOMAIN buffer : buffer[i] # 0

\* C8: buffer() has length ceil(W * bpp / 8) * H * planes, bpp the bits per
\* pixel of one plane, at every moment of the framebuffer's life.
C8_BufferLengthPerPlane ==
    buffer_length(cfg) =
        ((cfg.width * BITS_PER_PIXEL_PER_BUFFER(cfg.color) + 7) \div 8)
            * cfg.height * BUFFER_COUNT(cfg.color)

\* C9: on a tri-colour framebuffer set_pixel overwrites both plane bits of the
\* pixel: White -> (1, 0), Black -> (0, 0), Chromatic -> (1 iff polarity is
\* false, 1), whatever the bits were.
C9_Step ==
    (FbWrite /\ cfg.color = "TriColor"
        /\ InRotatedSize(cfg.width, cfg.height, rotation, FbPoint)) =>
        LET q == Transformed(cfg.width, cfg.height, rotation, FbPoint)
        IN  /\ status' = "ok"
            /\ PixelBits(buffer', buffer_length(cfg), cfg, q) = ColourBits(cfg, FbColour)
C9_TriColourWriteOverwritesBothPlaneBits == [][C9_Step]_vars

\* C10: as documented on Display: with BWRBIT = true a Chromatic pixel has
\* both plane bits set, Black has the white bit cleared, White has it set;
\* with BWRBIT = false Black has both bits cleared and White has the white
\* bit set.
C10_Step ==
    (FbWrite /\ cfg.color = "TriColor" /\ status' = "ok"
        /\ InRotatedSize(cfg.width, cfg.height, rotation, FbPoint)) =>
        LET q    == Transformed(cfg.width, cfg.height, rotation, FbPoint)
            bits == PixelBits(buffer', buffer_length(cfg), cfg, q)
        IN  IF cfg.bwrbit
            THEN CASE FbColour = "Chromatic" -> bits[0] = 1 /\ bits[1] = 1
                   [] FbColour = "Black"     -> bits[0] = 0
                   [] FbColour = "White"     -> bits[0] = 1
            ELSE CASE FbColour = "Black"     -> bits[0] = 0 /\ bits[1] = 0
                   [] FbColour = "White"     -> bits[0] = 1
                   [] OTHER                  -> TRUE
C10_DocumentedPolarity == [][C10_Step]_vars

-----------------------------------------------------------------------------
(* Reading a partial view against its parent *)

\* the pixels of the parent in the view's aligned columns and rows
AlignedPixels(v, c) ==
    {q \in PixelsOf(c) : /\ q[1] >= v.aligned_x
                         /\ q[1] < v.aligned_x + v.aligned_width
                         /\ q[2] >= v.y
                         /\ q[2] < v.y + v.height}

\* those of them outside the logical columns [x, x + width)
PaddingPixels(v, c) ==
    {q \in AlignedPixels(v, c) :
        q[1] < v.original_x \/ q[1] >= v.original_x + v.original_width}

\* the bit of plane k a view-sized buffer holds for parent pixel q
ViewBit(vbuf, v, k, q) ==
    LET i == k * (BufLen(vbuf) \div 2)
               + (q[2] - v.y) * (v.aligned_width \div 8)
               + (q[1] - v.aligned_x) \div 8
    IN  BitOf(vbuf[i], 7 - (q[1] % 8))

\* the points of the view's rotated logical size
LogicalPoints(v) ==
    IF v.rotation \in {"Rotate0", "Rotate180"}
    THEN (0 .. (v.original_width - 1)) \X (0 .. (v.height - 1))
    ELSE (0 .. (v.height - 1)) \X (0 .. (v.original_width - 1))

\* the region the view was requested over lies inside the parent
InParent(v, c) ==
    /\ v.original_width >= 1
    /\ v.height >= 1
    /\ v.original_x + v.original_width <= c.width
    /\ v.y + v.height <= c.height

\* the smallest multiple of 8 that, counted from ax, reaches x + width
SmallestCover(ax, x, width) ==
    CHOOSE m \in {8 * i : i \in 0 .. ((x + width) \div 8 + 1)} :
        /\ ax + m >= x + width
        /\ \A n \in {8 * i : i \in 0 .. ((x + width) \div 8 + 1)} :
              ax + n >= x + width => m <= n

-----------------------------------------------------------------------------
(* Claims about partial views, checked under Spec *)

\* C3: once get_update_parameters has returned, every parent pixel in the
\* aligned columns and rows of the view but outside its logical columns has,
\* in every plane, the value it had before the view was created, whatever
\* was written through the view, and the returned buffer holds that same
\* value in the padding bit.
C3_PaddingKeepsParentValue ==
    (call.op = "get_update_parameters" /\ status = "ok") =>
        \A q \in PaddingPixels(view, cfg) : \A k \in Planes(cfg) :
            LET old == PlaneBit(parent0, full_display_size(cfg), cfg, k, q)
            IN  /\ PlaneBit(buffer, full_display_size(cfg), cfg, k, q) = old
                /\ ViewBit(ret.buffer, view, k, q) = old

\* C3 witness: parameters were extracted from a rotated view with padding on
\* both sides after a write, the parent changed, and a padding pixel that was
\* set in the parent is set in the buffer returned.
C3_Witness ==
    /\ call.op = "get_update_parameters"
    /\ status = "ok"
    /\ nwrites >= 1
    /\ view.rotation = "Rotate180"
    /\ view.original_x > view.aligned_x
    /\ view.original_x + view.original_width < view.aligned_x + view.aligned_width
    /\ buffer # parent0
    /\ \E q \in PaddingPixels(view, cfg) :
          /\ q[1] >= view.original_x + view.original_width
          /\ PlaneBit(parent0, full_display_size(cfg), cfg, 0, q) = 1
          /\ ViewBit(ret.buffer, view, 0, q) = 1

\* C4: for every view rotation r, every point p of the view's rotated
\* logical size and every colour c, set_pixel(p, c) on the view followed by
\* get_update_parameters leaves c at parent pixel (x + px, y + py), (px, py)
\* being the rotation transform of p in the logical width x height rectangle.
C4_Step ==
    (view.live /\ status = "ok" /\ InParent(view, cfg)) =>
        \A c \in Colors(cfg.color) : \A p \in LogicalPoints(view) :
            PartialFrame_set_pixel(p, c) =>
                LET s == get_update_parameters(buffer', view', cfg)
                    t == Transformed(view.original_width, view.height,
                                     view.rotation, p)
                    q == <<view.original_x + t[1], view.y + t[2]>>
                IN  /\ status' = "ok"
                    /\ ~s.panicked =>
                          PixelBits(s.full, full_display_size(cfg), cfg, q)
                              = ColourBits(cfg, c)
C4_ViewWritesInCallersFrame == [][C4_Step]_vars

\* C5: while the parameters returned by get_update_parameters are held, for
\* every plane, every row i of the view and every byte column j of the aligned
\* region, the parent's byte at row y + i, byte column aligned_x / 8 + j equals
\* byte j of row i of the view buffer, which is the buffer returned.
C5_ParentEqualsViewRows ==
    ret.live =>
        /\ ret.buffer = view.buffer
        /\ \A k \in Planes(cfg) : \A i \in 0 .. (view.height - 1) :
              \A j \in 0 .. (view.aligned_width \div 8 - 1) :
                  buffer[k * (full_display_size(cfg) \div 2)
                           + (view.y + i) * ((cfg.width + 7) \div 8)
                           + view.aligned_x \div 8 + j]
                    = view.buffer[k * (BufLen(view.buffer) \div 2)
                                    + i * (view.aligned_width \div 8) + j]

\* C5 witness: parameters are held for a two-row tri-colour view that was
\* written to, and the parent's bytes changed.
C5_Witness ==
    /\ ret.live
    /\ cfg.color = "TriColor"
    /\ view.height = 2
    /\ nwrites >= 1
    /\ buffer # parent0
    /\ \E i \in DOMAIN view.buffer : view.buffer[i] # 0

-----------------------------------------------------------------------------
(* Claims about the driver, checked under SpecEpd *)

\* the last call on the driver was op and has returned res
Returned(op, res) == call.op = op /\ epd.pc = "idle" /\ result = res

\* C11: set_lut called with the mode the driver records as active (Full, Quick
\* or PartialRefresh) returns Ok at once: it has sent no command and no data
\* byte and the recorded mode is what it was; and the mode recorded by a
\* successful new is Full.
C11_SetLutOfActiveModeIsNoOp ==
    /\ (call.op = "set_lut" /\ call.arg[1] = epd.entry)
          => /\ Returned("set_lut", "ok")
             /\ bus = <<>>
             /\ epd.refresh = epd.entry
    /\ Returned("new", "ok") => epd.refresh = "Full"

C11_Witness ==
    /\ Returned("set_lut", "ok")
    /\ call.arg[1] = "Quick"
    /\ epd.entry = "Quick"
    /\ bus = <<>>

\* the arguments of the last update_partial_frame call
ArgBuffer == call.arg[1]
ArgX      == call.arg[2]
ArgY      == call.arg[3]
ArgWidth  == call.arg[4]
ArgHeight == call.arg[5]

\* ceil(width / 8) * height of the window handed to update_partial_frame
PackedSize == ((ArgWidth + 7) \div 8) * ArgHeight

\* the u32 subtractions of the window's end column or end row go below zero
WindowEndUnderflows ==
    \/ (ArgX - (ArgX % 8)) + ArgWidth - 1 < 0
    \/ ArgY + ArgHeight - 1 < 0

\* C12: update_partial_frame panics whenever the buffer's length is not
\* ceil(width / 8) * height, and then no command and no data byte has been
\* sent; when the lengths match, the call does not panic on that check (the
\* one panic left is the arithmetic overflow of an empty window in a build
\* with overflow checks).
C12_LengthMismatchPanicsBeforeAnyWrite ==
    call.op = "update_partial_frame" =>
        /\ BufLen(ArgBuffer) # PackedSize => (status = "panic" /\ bus = <<>>)
        /\ BufLen(ArgBuffer) = PackedSize =>
              (status = "panic" => (cfg.overflow_checks /\ WindowEndUnderflows))

C12_Witness ==
    /\ call.op = "update_partial_frame"
    /\ BufLen(ArgBuffer) > PackedSize
    /\ PackedSize > 0
    /\ status = "panic"
    /\ bus = <<>>

-----------------------------------------------------------------------------
(* Claims about the construction of a VarDisplay, checked under SpecNew *)

\* height * ceil(width * bpp / 8), bpp the bits per pixel per plane times the
\* number of planes
ComputedSize ==
    LET bpp == 1 * (IF cfg.color = "TriColor" THEN 2 ELSE 1)
    IN  cfg.height * ((cfg.width * bpp + 7) \div 8)

\* C13: VarDisplay::new fails with BufferTooSmall exactly when the caller's
\* buffer is shorter than height * ceil(width * bpp / 8); otherwise it
\* succeeds with rotation 0.  Either way the caller's bytes are as they were.
\* A longer buffer is accepted, and buffer() then exposes the first
\* computed-size bytes of it and no more.
C13_NewFailsExactlyWhenBufferTooSmall ==
    call.op = "new" =>
        /\ result \in {"ok", "BufferTooSmall"}
        /\ result = "BufferTooSmall" <=> cfg.bytecount < ComputedSize
        /\ buffer = InitialBuffer(cfg)
        /\ BufLen(buffer) = cfg.bytecount
        /\ result = "ok" =>
              /\ rotation = "Rotate0"
              /\ BufLen(VarDisplay_buffer(cfg, buffer)) = ComputedSize
              /\ \A i \in 0 .. (ComputedSize - 1) :
                    VarDisplay_buffer(cfg, buffer)[i] = InitialBuffer(cfg)[i]

C13_Witness ==
    /\ call.op = "new"
    /\ result = "ok"
    /\ cfg.bytecount > ComputedSize
    /\ cfg.color = "TriColor"
    /\ BufLen(VarDisplay_buffer(cfg, buffer)) < BufLen(buffer)

-----------------------------------------------------------------------------
(* Claims about waiting for the panel, checked under SpecEpdLive *)

\* a display_frame call is in progress
DisplayFrameRunning == call.op = "display_frame" /\ epd.pc = "running"

\* the log of a display_frame that returned Ok starts with the refresh
\* command and ends with a read of the busy line that found it idle
C14_ReturnedAfterIdle ==
    Returned("display_frame", "ok") =>
        /\ Len(bus) >= 3
        /\ SubSeq(bus, 1, 1) = cmd("DisplayRefresh")
        /\ SubSeq(bus, Len(bus), Len(bus)) = is_busy("idle")
        /\ \A i \in 2 .. (Len(bus) - 1) :
              \/ bus[i] = cmd("GetStatus")[1]
              \/ bus[i] = is_busy("busy")[1]

\* a display_frame in progress returns Ok only by a step that finds the busy
\* line idle
C14_ReturnsOkOnlyOnIdle ==
    (DisplayFrameRunning /\ epd'.pc = "idle" /\ result' = "ok")
        => (~epd.busy /\ epd.probed)

\* C14: display_frame sends the refresh command and returns Ok only after the
\* busy line has been read idle.  While the line stays busy the call does not
\* return Ok (there is no timeout); if the line is idle from some time on,
\* the call in progress returns (Ok, when no bus write fails).
C14_DisplayFrameWaitsForIdle ==
    /\ []C14_ReturnedAfterIdle
    /\ [][C14_ReturnsOkOnlyOnIdle]_vars
    /\ (<>[](~epd.busy)) => [](DisplayFrameRunning => <>(epd.pc = "idle"))
    /\ (<>[](~epd.busy) /\ [](result # "err"))
          => [](DisplayFrameRunning => <>Returned("display_frame", "ok"))

C14_Witness ==
    /\ Returned("display_frame", "ok")
    /\ bus = cmd("DisplayRefresh")
             \o cmd("GetStatus") \o is_busy("busy")
             \o cmd("GetStatus") \o is_busy("idle")

-----------------------------------------------------------------------------
(* Claims about the plane halves of a tri-colour framebuffer, checked under  *)
(* SpecFb *)

\* C15: on a tri-colour framebuffer whose buffer has the documented length,
\* of any width (a multiple of 8 or not), a set_pixel inside the rotated size
\* returns normally, its plane-0 byte index lies in the first half of the
\* buffer and its plane-1 byte index, half the buffer length further, lies
\* in the second half; no other byte changes.
C15_Step ==
    (FbWrite /\ cfg.color = "TriColor"
        /\ InRotatedSize(cfg.width, cfg.height, rotation, FbPoint)) =>
        LET q     == Transformed(cfg.width, cfg.height, rotation, FbPoint)
            len   == buffer_length(cfg)
            half  == len \div 2
            index == q[1] \div 8 + q[2] * ((cfg.width + 7) \div 8)
        IN  /\ status' = "ok"
            /\ index < half
            /\ index + half < len
            /\ \A i \in DOMAIN buffer :
                  buffer'[i] # buffer[i] => i \in {index, index + half}
C15_PlaneIndexesStayInTheirHalves == [][C15_Step]_vars

-----------------------------------------------------------------------------
(* Claims about the command sequences of the driver, checked under SpecEpd *)

\* the commands and data blocks set_lut is to send for a change of mode from
\* recorded to m
LutSequence(recorded, m) ==
    (IF recorded = "Quick"
     THEN << [dc |-> "command", bytes |-> <<"BoosterSoftStart">>],
             [dc |-> "data", bytes |-> <<23, 23, 40, 23>>] >>       \* 0x17 0x17 0x28 0x17
     ELSE <<>>)
    \o (CASE m = "Full" ->
                << [dc |-> "command", bytes |-> <<"CascadeSetting">>],
                   [dc |-> "data", bytes |-> <<0>>] >>
          [] m = "Quick" ->
                << [dc |-> "command", bytes |-> <<"BoosterSoftStart">>],
                   [dc |-> "data", bytes |-> <<39, 39, 24, 23>>],   \* 0x27 0x27 0x18 0x17
                   [dc |-> "command", bytes |-> <<"CascadeSetting">>],
                   [dc |-> "data", bytes |-> <<2>>],
                   [dc |-> "command", bytes |-> <<"ForceTemperature">>],
                   [dc |-> "data", bytes |-> <<90>>] >>             \* 0x5A
          [] m = "PartialRefresh" ->
                << [dc |-> "command", bytes |-> <<"CascadeSetting">>],
                   [dc |-> "data", bytes |-> <<2>>],
                   [dc |-> "command", bytes |-> <<"ForceTemperature">>],
                   [dc |-> "data", bytes |-> <<110>>] >>)           \* 0x6E

\* C16: a set_lut to a mode m other than the recorded one, with every write
\* succeeding, sends: the default booster timing first if the recorded mode
\* is Quick; then for Full the cascade setting [0x00] alone, for Quick the
\* accelerated booster timing, cascade setting [0x02] and force-temperature
\* [0x5A], for PartialRefresh cascade setting [0x02] and force-temperature
\* [0x6E]; nothing else; and afterwards the recorded mode is m.
C16_SetLutSendsTheModeSequence ==
    (Returned("set_lut", "ok") /\ call.arg[1] \in RefreshLuts
        /\ call.arg[1] # epd.entry) =>
        /\ bus = LutSequence(epd.entry, call.arg[1])
        /\ epd.refresh = call.arg[1]

C16_Witness ==
    /\ Returned("set_lut", "ok")
    /\ epd.entry = "Quick"
    /\ call.arg[1] = "PartialRefresh"
    /\ epd.refresh = "PartialRefresh"
    /\ Len(bus) = 6

\* the panel's refresh command is among the writes logged
RefreshSent == \E i \in 1 .. Len(bus) : bus[i] = cmd("DisplayRefresh")[1]

\* C17: an update_partial_frame that returns Ok has sent exactly: the
\* partial-in command; the partial-window command and its 9 parameter bytes;
\* the data-start-transmission command and then the caller's buffer, byte for
\* byte, as full-frame update sends a buffer; the partial-out command.  It
\* has sent no refresh command.
C17_PartialUpdateSequence ==
    Returned("update_partial_frame", "ok") =>
        /\ Len(bus) = 6
        /\ bus[1] = [dc |-> "command", bytes |-> <<"PartialIn">>]
        /\ bus[2] = [dc |-> "command", bytes |-> <<"PartialWindow">>]
        /\ bus[3].dc = "data"
        /\ Len(bus[3].bytes) = 9
        /\ bus[4] = [dc |-> "command", bytes |-> <<"DataStartTransmission2">>]
        /\ bus[5].dc = "data"
        /\ Len(bus[5].bytes) = BufLen(ArgBuffer)
        /\ \A i \in 1 .. Len(bus[5].bytes) : bus[5].bytes[i] = ArgBuffer[i - 1]
        /\ bus[6] = [dc |-> "command", bytes |-> <<"PartialOut">>]
        /\ ~RefreshSent

C17_Witness ==
    /\ Returned("update_partial_frame", "ok")
    /\ BufLen(ArgBuffer) = 2
    /\ ArgX = 256
    /\ bus[5].bytes = <<ArgBuffer[0], ArgBuffer[1]>>

\* the last column and the last row of the window handed to
\* update_partial_frame
ArgXEnd == ArgX + ArgWidth - 1
ArgYEnd == ArgY + ArgHeight - 1

\* C18: for x and width multiples of 8, any y, height >= 1 and all window
\* coordinates below 65536, the partial-window parameter bytes are
\* [x>>8, x&0xFF, e>>8, e&0xFF, y>>8, y&0xFF, f>>8, f&0xFF, 0x01] with
\* e = (x + width - 1) | 0b111 = x + width - 1 and f = y + height - 1.
C18_WindowBytes ==
    (call.op = "update_partial_frame" /\ status = "ok" /\ Len(bus) >= 3
        /\ ArgX % 8 = 0 /\ ArgWidth % 8 = 0 /\ ArgHeight >= 1
        /\ {ArgX, ArgXEnd, ArgY, ArgYEnd} \subseteq 0 .. 65535) =>
        /\ BitOr(ArgXEnd, 7) = ArgXEnd
        /\ bus[3].bytes = << ArgX \div 256, BitAnd(ArgX, 255),
                             ArgXEnd \div 256, BitAnd(ArgXEnd, 255),
                             ArgY \div 256, BitAnd(ArgY, 255),
                             ArgYEnd \div 256, BitAnd(ArgYEnd, 255),
                             1 >>

C18_Witness ==
    /\ call.op = "update_partial_frame"
    /\ status = "ok"
    /\ Len(bus) >= 3
    /\ ArgX = 256 /\ ArgY = 300 /\ ArgWidth = 16 /\ ArgHeight = 1
    /\ bus[3].bytes = <<1, 0, 1, 15, 1, 44, 1, 44, 1>>

\* the log of the last call without the rounds of its waits that found the
\* panel busy: the status command writes and the busy reads are left out,
\* the read that found the line idle stays
Steps ==
    SelectSeq(bus, LAMBDA e : e # cmd("GetStatus")[1] /\ e # is_busy("busy")[1])

ConfigurationCommands ==
    {"BoosterSoftStart", "PanelSetting", "VcomAndDataIntervalSetting"}

\* the positions of the log at which command c was written
WrittenAt(c) == {i \in 1 .. Len(bus) : bus[i] = cmd(c)[1]}

\* new or wake_up, the two callers of Initialize, has returned Ok
Initialized == Returned("new", "ok") \/ Returned("wake_up", "ok")

\* C19 as stated: Initialize makes the reset pulse, then sends its whole
\* configuration sequence (booster timing, panel mode, interval/polarity),
\* then the power-on command, and last waits for the busy line: no
\* configuration command is sent after power-on, and Ok is returned only
\* after the wait has read the line idle as the last step.
C19_ConfigurationBeforePowerOn ==
    Initialized =>
        /\ bus[1].dc = "reset"
        /\ \A c \in ConfigurationCommands :
              /\ WrittenAt(c) # {}
              /\ \A i \in WrittenAt(c) : \A p \in WrittenAt("PowerOn") : i < p
        /\ WrittenAt("PowerOn") # {}
        /\ bus[Len(bus)] = is_busy("idle")[1]

\* C19 as the code has it: Initialize makes the reset pulse, sends the
\* booster timing, powers on, delays 100 ms and waits until the busy line is
\* read idle, and only then sends the panel mode [0x1F] and the
\* interval/polarity setting [0x29, 0x07]; it returns Ok after that last
\* write, with no wait following it.
C19_PanelConfiguredAfterPowerOn ==
    Initialized =>
        Steps = reset(10000, 2000)
                \o << [dc |-> "command", bytes |-> <<"BoosterSoftStart">>],
                      [dc |-> "data", bytes |-> <<23, 23, 40, 23>>],
                      [dc |-> "command", bytes |-> <<"PowerOn">>],
                      [dc |-> "delay_ms", bytes |-> <<100>>],
                      [dc |-> "busy_pin", bytes |-> <<"idle">>],
                      [dc |-> "command", bytes |-> <<"PanelSetting">>],
                      [dc |-> "data", bytes |-> <<31>>],
                      [dc |-> "command", bytes |-> <<"VcomAndDataIntervalSetting">>],
                      [dc |-> "data", bytes |-> <<41, 7>>] >>

C19_Witness ==
    /\ Returned("wake_up", "ok")
    /\ Len(bus) > Len(Steps)
    /\ bus[Len(bus)] = [dc |-> "data", bytes |-> <<41, 7>>]

-----------------------------------------------------------------------------
(* Claims about bus errors, checked under SpecEpd *)

\* a bus write of the call in progress fails in this step
WriteFails == Interface_write(FALSE) \/ Interface_status_command(FALSE)

\* the failed write ends the call: Err is returned in the same step, nothing
\* is added to what the call had sent, no step of the call is left to make,
\* and the mode and the colour the driver records are those of before the call
C21_FailStep ==
    WriteFails =>
        /\ result' = "err"
        /\ epd'.pc = "idle"
        /\ epd'.todo = <<>>
        /\ bus' = bus
        /\ epd'.refresh = epd.entry
        /\ epd'.color = epd.color

\* once Err is returned nothing more is sent until the caller makes a new call
C21_AfterErr ==
    (result = "err" /\ result' = "err") => (bus' = bus /\ epd'.pc = "idle")

\* C21: in every driver operation that writes on the bus (init by new and by
\* wake_up, set_lut, update_frame, update_partial_frame, display_frame,
\* update_and_display_frame, clear_frame, sleep) a failed bus write makes the
\* operation return the error at once: the write is not made again, no later
\* command or data of the operation is sent, and the recorded waveform mode
\* and background colour are what they were before the call.
C21_BusErrorReturnsAtOnce ==
    /\ [][C21_FailStep]_vars
    /\ [][C21_AfterErr]_vars
    /\ [](Running => (epd.refresh = epd.entry /\ result # "err"))
    /\ [][Running => epd'.color = epd.color]_vars

C21_Witness ==
    /\ Returned("set_lut", "err")
    /\ call.arg[1] = "Quick"
    /\ epd.entry = "PartialRefresh"
    /\ epd.refresh = "PartialRefresh"
    /\ Len(bus) = 3

-----------------------------------------------------------------------------
(* Claims about the recorded and the panel's waveform mode, under SpecEpd *)

\* C22: after any sequence of successful set_lut, sleep and wake_up calls on
\* a driver returned by new, the waveform mode the driver records is the mode
\* the panel is configured for: the one its last cascade setting and forced
\* temperature since the last reset pulse select, Full after a reset pulse.
\* So after set_lut(Quick), sleep, wake_up the two agree.
C22_RecordedModeIsPanelMode ==
    (epd.made /\ epd.pc = "idle" /\ epd.lut_only)
        => epd.refresh = PanelMode(epd.panel)

-----------------------------------------------------------------------------
(* Claims about the content of a partial view, checked under Spec *)

\* the pixels of the parent inside the logical region of the view
LogicalPixels(v, c) == AlignedPixels(v, c) \ PaddingPixels(v, c)

\* the plane bits a view-sized buffer holds for parent pixel q
ViewBits(vbuf, v, c, q) == [k \in Planes(c) |-> ViewBit(vbuf, v, k, q)]

\* the parent pixel a write at point p of the view's rotated logical size
\* is a write to
WrittenPixel(v, p) ==
    LET t == Transformed(v.original_width, v.height, v.rotation, p)
    IN  <<v.original_x + t[1], v.y + t[2]>>

\* a view is created with every byte zero, whatever the parent holds
C23_CreatedZero ==
    (call'.op = "get_partial_frame" /\ call # call' /\ status' = "ok") =>
        \A i \in DOMAIN view'.buffer : view'.buffer[i] = 0

\* a write through the view leaves its colour in the pixel written to and
\* leaves every other pixel of the logical region as it was
C23_WriteStep ==
    (view.live /\ status = "ok" /\ InParent(view, cfg)) =>
        \A c \in Colors(cfg.color) : \A p \in ViewPoints(view) :
            (PartialFrame_set_pixel(p, c) /\ status' = "ok") =>
                \A q \in LogicalPixels(view, cfg) :
                    ViewBits(view'.buffer, view, cfg, q) =
                        IF p \in LogicalPoints(view) /\ q = WrittenPixel(view, p)
                        THEN ColourBits(cfg, c)
                        ELSE ViewBits(view.buffer, view, cfg, q)

\* get_update_parameters hands out, and copies to the parent, what the view
\* holds for the pixels of the logical region
C23_SyncStep ==
    (view.live /\ status = "ok" /\ InParent(view, cfg)
        /\ PartialFrame_get_update_parameters /\ status' = "ok") =>
        \A q \in LogicalPixels(view, cfg) :
            /\ ViewBits(ret'.buffer, view, cfg, q) = ViewBits(view.buffer, view, cfg, q)
            /\ PixelBits(buffer', full_display_size(cfg), cfg, q)
                  = ViewBits(view.buffer, view, cfg, q)

\* C23: a partial view starts zero-filled and is not seeded from its parent:
\* after get_update_parameters every pixel of the logical region
\* [x, x + width) x [y, y + height) holds, in the buffer returned and in the
\* parent, the last colour written to it through the view, or all-zero plane
\* bits if it was never written through the view.
C23_LogicalRegionHoldsWhatWasWritten ==
    /\ [][C23_CreatedZero]_vars
    /\ [][C23_WriteStep]_vars
    /\ [][C23_SyncStep]_vars


\* a region request with a pixel in it that lies inside the parent
RequestInParent(x, y, width, height, c) ==
    /\ width >= 1 /\ height >= 1
    /\ x + width <= c.width /\ y + height <= c.height

ViewRequestInParent == view.live /\ InParent(view, cfg)

ViewCalls == {"view_set_rotation", "view_set_pixel", "get_update_parameters"}

\* the parent bytes of rows [y, y + height) and byte columns
\* [aligned_x / 8, (aligned_x + aligned_width) / 8) of each plane
SyncedBytes(v, c) ==
    {k * (full_display_size(c) \div 2) + row * ((c.width + 7) \div 8) + col :
        k \in Planes(c),
        row \in v.y .. (v.y + v.height - 1),
        col \in (v.aligned_x \div 8) .. ((v.aligned_x + v.aligned_width) \div 8 - 1)}

\* creating the view, writing to it and get_update_parameters do not panic
C24_NoOutOfRangeAccess ==
    /\ (call.op = "get_partial_frame"
          /\ RequestInParent(call.arg[1], call.arg[2], call.arg[3], call.arg[4], cfg))
        => status = "ok"
    /\ (call.op \in ViewCalls /\ ViewRequestInParent) => status = "ok"

\* no step changes a parent byte except get_update_parameters, which changes
\* bytes of the synchronised rows and byte columns only
C24_FrameStep ==
    (view'.live /\ InParent(view', cfg)) =>
        \A i \in DOMAIN buffer :
            buffer'[i] # buffer[i] =>
                /\ call'.op = "get_update_parameters"
                /\ i \in SyncedBytes(view', cfg)

\* right after get_update_parameters a second one returns the same buffer
\* and leaves the parent as it is
C24_SecondCallChangesNothing ==
    (call.op = "get_update_parameters" /\ status = "ok" /\ ViewRequestInParent) =>
        LET s == get_update_parameters(buffer, view, cfg)
        IN  /\ ~s.panicked
            /\ s.part = ret.buffer
            /\ s.full = buffer

\* C24: for every region request with width >= 1, height >= 1,
\* x + width <= parent width and y + height <= parent height, creating a view,
\* writing to it and calling get_update_parameters makes no out-of-range buffer
\* access and changes no parent byte outside rows [y, y + height) and byte
\* columns [aligned_x / 8, (aligned_x + aligned_width) / 8) of each plane; a
\* second get_update_parameters with no writes in between returns the same
\* buffer and leaves the parent unchanged.
C24_SyncStaysInRegionAndRepeats ==
    /\ []C24_NoOutOfRangeAccess
    /\ [][C24_FrameStep]_vars
    /\ []C24_SecondCallChangesNothing

=============================================================================
